---- MODULE Spec2Model ----
(***************************************************************************)
(* LingoPop (Beccaa2023/AI_tool): the App component's state, the lookup   *)
(* pipeline (handleSearch), the notebook (saveItem / deleteItem /         *)
(* reviewItem), the settings dialog and their persistence in localStorage,*)
(* the result card (chat, speech playback) and the notebook view (story   *)
(* weaving) with the calls they make to the Gemini service.                *)
(*                                                                         *)
(* A string is a sequence of characters; a character is a TLA+ string.    *)
(* Fixed identifiers without special characters (key names, language      *)
(* names, model ids) are written as one fragment.  An optional value is a *)
(* sequence of length 0 (null / undefined) or 1.                          *)
(***************************************************************************)
EXTENDS Integers, Sequences, FiniteSets, TLC

\* ------------------------------------------------------------------ bounds
MaxLangs    == 2   \* languages offered by the two <select> elements
MaxWords    == 1   \* headwords the definition collaborator returns (Spec)
MaxLookups  == 2   \* results produced, and items saved (Spec)
MaxSaves    == 3   \* headwords, results produced and items saved (NotebookSpec)
MaxKeyLen   == 1   \* characters typed into the API-key box
MaxRestarts == 1   \* page reloads
MaxSends    == 3   \* chat messages sent in one run (CardSpec)
MaxPlays    == 2   \* speech requests and playbacks under way at once (CardSpec)
MaxStoryItems == 12  \* items of the notebook the story is woven from (StorySpec)
MaxFlashItems == 3   \* items of the notebook under review (FlashSpec)

\* --------------------------------------------------------------- constants
LANGUAGES ==
    << [code |-> "en", name |-> <<"English">>],
       [code |-> "zh", name |-> <<"Chinese">>],
       [code |-> "es", name |-> <<"Spanish">>],
       [code |-> "fr", name |-> <<"French">>],
       [code |-> "de", name |-> <<"German">>],
       [code |-> "ja", name |-> <<"Japanese">>],
       [code |-> "ko", name |-> <<"Korean">>],
       [code |-> "pt", name |-> <<"Portuguese (European)">>],
       [code |-> "ru", name |-> <<"Russian">>],
       [code |-> "hi", name |-> <<"Hindi">>] >>

AI_MODELS == << <<"gemini-2.5-flash">>, <<"gemini-3-pro-preview">> >>

DEFAULT_SETTINGS == [apiKey |-> <<>>, textModel |-> <<"gemini-2.5-flash">>]


\* ------------------------------------------------------------------- text
DQ == "\""
BS == "\\"
SP == " "
Digits == <<"0", "1", "2", "3", "4", "5", "6", "7", "8", "9">>

None    == <<>>
Some(x) == <<x>>

RECURSIVE SeqsUpTo(_, _)
SeqsUpTo(S, n) ==
    IF n = 0 THEN {<<>>}
    ELSE LET shorter == SeqsUpTo(S, n - 1)
         IN  shorter \cup {Append(s, c) : s \in shorter, c \in S}

\* String.prototype.trim on the modelled alphabet (SP is the only blank)
RECURSIVE TrimStart(_)
TrimStart(s) == IF s # <<>> /\ Head(s) = SP THEN TrimStart(Tail(s)) ELSE s

RECURSIVE TrimEnd(_)
TrimEnd(s) ==
    IF s # <<>> /\ s[Len(s)] = SP THEN TrimEnd(SubSeq(s, 1, Len(s) - 1)) ELSE s

\* mutant: blanks count as text
TrimNothing(s) == s

Trim(s) == TrimEnd(TrimStart(s))

\* --------------------------------------------------------- JSON.stringify
RECURSIVE Escape(_)
Escape(s) ==
    IF s = <<>> THEN <<>>
    ELSE (IF Head(s) \in {DQ, BS} THEN <<BS, Head(s)>> ELSE <<Head(s)>>)
         \o Escape(Tail(s))

JSONquote(s) == <<DQ>> \o Escape(s) \o <<DQ>>

RECURSIVE NumText(_)
NumText(n) ==
    IF n < 10 THEN <<Digits[n + 1]>>
    ELSE NumText(n \div 10) \o <<Digits[(n % 10) + 1]>>

StrMember(key, s) == JSONquote(<<key>>) \o <<":">> \o JSONquote(s)
NumMember(key, n) == JSONquote(<<key>>) \o <<":">> \o NumText(n)

RECURSIVE Join(_)
Join(parts) ==
    IF parts = <<>> THEN <<>>
    ELSE IF Len(parts) = 1 THEN parts[1]
    ELSE parts[1] \o <<",">> \o Join(Tail(parts))

\* JSON.stringify(settings)
StringifySettings(s) ==
    <<"{">> \o Join(<< StrMember("apiKey", s.apiKey),
                       StrMember("textModel", s.textModel) >>) \o <<"}">>

\* JSON.stringify of one SavedItem: keys in insertion order, a key whose
\* value is undefined (imageUrl of a degraded lookup) is left out
StringifyItem(it) ==
    <<"{">>
    \o Join(<< StrMember("word", it.word),
               StrMember("explanation", it.explanation) >>
            \o (IF it.imageUrl = None THEN <<>>
                ELSE << StrMember("imageUrl", it.imageUrl[1]) >>)
            \o << NumMember("timestamp", it.timestamp),
                  StrMember("sourceLang", it.sourceLang),
                  StrMember("targetLang", it.targetLang),
                  NumMember("id", it.id) >>)
    \o <<"}">>

\* JSON.stringify(savedItems)
StringifyItems(items) ==
    <<"[">> \o Join([i \in 1..Len(items) |-> StringifyItem(items[i])]) \o <<"]">>

\* ------------------------------------------------------------- JSON.parse
\* Every parser returns [ok, t, s, n, m, next]: ok = FALSE is a SyntaxError;
\* t tags the value ("str", "num", "obj", "arr"), s / n / m carry it, next is
\* the position after the value.
Fail == [ok |-> FALSE, t |-> "none", s |-> <<>>, n |-> 0, m |-> <<>>, next |-> 0]

StrVal(s, next)  == [ok |-> TRUE, t |-> "str", s |-> s, n |-> 0, m |-> <<>>, next |-> next]
NumVal(n, next)  == [ok |-> TRUE, t |-> "num", s |-> <<>>, n |-> n, m |-> <<>>, next |-> next]
ObjVal(m, next)  == [ok |-> TRUE, t |-> "obj", s |-> <<>>, n |-> 0, m |-> m, next |-> next]
ArrVal(m, next)  == [ok |-> TRUE, t |-> "arr", s |-> <<>>, n |-> 0, m |-> m, next |-> next]

At(t, i, c) == i <= Len(t) /\ t[i] = c

IsDigit(c) == \E d \in 1..10 : Digits[d] = c
DigitVal(c) == (CHOOSE d \in 1..10 : Digits[d] = c) - 1

RECURSIVE ReadChars(_, _, _)
ReadChars(t, j, acc) ==
    IF j > Len(t) THEN Fail
    ELSE IF t[j] = DQ THEN StrVal(acc, j + 1)
    ELSE IF t[j] = BS
         THEN IF j + 1 <= Len(t) /\ t[j + 1] \in {DQ, BS}
              THEN ReadChars(t, j + 2, Append(acc, t[j + 1]))
              ELSE Fail
    ELSE ReadChars(t, j + 1, Append(acc, t[j]))

ParseString(t, i) == IF At(t, i, DQ) THEN ReadChars(t, i + 1, <<>>) ELSE Fail

RECURSIVE ReadDigits(_, _, _)
ReadDigits(t, j, acc) ==
    IF j <= Len(t) /\ IsDigit(t[j])
    THEN ReadDigits(t, j + 1, 10 * acc + DigitVal(t[j]))
    ELSE NumVal(acc, j)

ParseNumber(t, i) ==
    IF i > Len(t) \/ ~IsDigit(t[i]) THEN Fail
    ELSE IF t[i] = "0" /\ i + 1 <= Len(t) /\ IsDigit(t[i + 1]) THEN Fail
    ELSE ReadDigits(t, i, 0)

ParseScalar(t, i) ==
    IF At(t, i, DQ) THEN ParseString(t, i) ELSE ParseNumber(t, i)

\* members of an object after "{": key ":" value ("," key ":" value)* "}"
RECURSIVE ParseMembers(_, _, _)

MemberOf(key, v) == [k |-> key, t |-> v.t, s |-> v.s, n |-> v.n]

\* v is the parse of the value that follows key
MembersAfterValue(t, acc, key, v) ==
    IF ~v.ok THEN Fail
    ELSE IF At(t, v.next, ",")
         THEN ParseMembers(t, v.next + 1, Append(acc, MemberOf(key, v)))
    ELSE IF At(t, v.next, "}")
         THEN ObjVal(Append(acc, MemberOf(key, v)), v.next + 1)
    ELSE Fail

\* k is the parse of the key
MembersAfterKey(t, acc, k) ==
    IF ~k.ok \/ ~At(t, k.next, ":") THEN Fail
    ELSE MembersAfterValue(t, acc, k.s, ParseScalar(t, k.next + 1))

ParseMembers(t, i, acc) == MembersAfterKey(t, acc, ParseString(t, i))

ParseObject(t, i) ==
    IF ~At(t, i, "{") THEN Fail
    ELSE IF At(t, i + 1, "}") THEN ObjVal(<<>>, i + 2)
    ELSE ParseMembers(t, i + 1, <<>>)

\* elements of an array after "[": object ("," object)* "]"
RECURSIVE ParseElements(_, _, _)

\* e is the parse of the element
ElementsAfter(t, acc, e) ==
    IF ~e.ok THEN Fail
    ELSE IF At(t, e.next, ",")
         THEN ParseElements(t, e.next + 1, Append(acc, e.m))
    ELSE IF At(t, e.next, "]") THEN ArrVal(Append(acc, e.m), e.next + 1)
    ELSE Fail

ParseElements(t, i, acc) == ElementsAfter(t, acc, ParseObject(t, i))

ParseArray(t, i) ==
    IF ~At(t, i, "[") THEN Fail
    ELSE IF At(t, i + 1, "]") THEN ArrVal(<<>>, i + 2)
    ELSE ParseElements(t, i + 1, <<>>)

\* JSON.parse(text): one value spanning the whole text, else SyntaxError
WholeText(t, v) == IF v.ok /\ v.next = Len(t) + 1 THEN v ELSE Fail

JSONparse(t) ==
    WholeText(t, IF At(t, 1, "[") THEN ParseArray(t, 1) ELSE ParseObject(t, 1))

\* property reads on a parsed object: the last member with that key
HasKey(m, key) == \E j \in 1..Len(m) : m[j].k = <<key>>
Member(m, key) ==
    m[CHOOSE j \in 1..Len(m) :
        /\ m[j].k = <<key>>
        /\ \A h \in (j + 1)..Len(m) : m[h].k # <<key>>]
PropStr(m, key) == IF HasKey(m, key) THEN Member(m, key).s ELSE <<>>
PropNum(m, key) == IF HasKey(m, key) THEN Member(m, key).n ELSE 0
PropOpt(m, key) == IF HasKey(m, key) THEN Some(Member(m, key).s) ELSE None

AsSettings(m) == [apiKey |-> PropStr(m, "apiKey"), textModel |-> PropStr(m, "textModel")]

AsItem(m) ==
    [word        |-> PropStr(m, "word"),
     explanation |-> PropStr(m, "explanation"),
     imageUrl    |-> PropOpt(m, "imageUrl"),
     timestamp   |-> PropNum(m, "timestamp"),
     sourceLang  |-> PropStr(m, "sourceLang"),
     targetLang  |-> PropStr(m, "targetLang"),
     id          |-> PropNum(m, "id")]

AsItems(arr) == [i \in 1..Len(arr) |-> AsItem(arr[i])]

\* ------------------------------------------------------------------ state
VARIABLES
    hasStarted,     \* useState(false): the welcome screen has been left
    nativeLang,     \* useState(LANGUAGES[0])
    targetLang,     \* useState(LANGUAGES[2])
    mode,           \* AppMode
    query,          \* text of the search box
    loading,        \* a lookup is running
    currentResult,  \* DictionaryResult | null
    showSettings,   \* the settings dialog is open
    settings,       \* AppSettings held by the component
    savedItems,     \* the notebook, as held by React
    view,           \* savedItems as of the last commit: what the handlers of
                    \* that render (saveItem's check, the notebook list) see
    effectPending,  \* the [savedItems] effect has not run since the last change
    lsSettings,     \* localStorage['lingopop_settings'] (None: key absent)
    lsSaved,        \* localStorage['lingopop_saved']    (None: key absent)
    lookup,         \* the two requests of the latest handleSearch
    alertShown,     \* the alert() raised by the latest step, "none" if none
    crashed,        \* the component threw while mounting
    nextId,         \* ids handed out so far by crypto.randomUUID()
    clock,          \* Date.now()
    restarts,       \* page reloads so far
    persisted,      \* history: the settings the latest saveSettings stored
    submitted,      \* history: the selection when the latest lookup was submitted
    produced,       \* history: timestamp -> selection at submission of that result
    lastOp,         \* history: what the latest step did, and to which id
    failure,        \* history: why the latest lookup failed, "none" if it did not
    callsSinceSave, \* history: the requests issued since the latest saveSettings
    chatOpen,       \* ResultCard: the chat overlay is shown
    chatHistory,    \* ResultCard: the visible transcript
    chatInput,      \* ResultCard: text of the chat box
    chatLoading,    \* ResultCard: a chat request is outstanding
    chat,           \* the chat request of this card: what getChatResponse got
    chatBefore,     \* history: the transcript when the latest message was sent
    chatSends,      \* history: messages the card sent that were answered
    chatFails,      \* history: messages the card sent whose request failed
    isPlaying,      \* ResultCard: id of the play button in use, None if none
    speechOrphans,  \* speech requests outstanding whose card is gone
    sounding,       \* AudioBufferSourceNodes started and not yet ended
    story,          \* NotebookView: the story shown, None if none
    loadingStory,   \* NotebookView: a story request is outstanding
    storyRequest,   \* NotebookView: the words and language of that request
    index,          \* FlashcardMode: position of the item shown (from 0)
    faceUp          \* FlashcardMode: the face shown, "front" or "back"

vars == << hasStarted, nativeLang, targetLang, mode, query, loading,
           currentResult, showSettings, settings, savedItems, view,
           effectPending, lsSettings, lsSaved, lookup, alertShown, crashed,
           nextId, clock, restarts, persisted, submitted, produced, lastOp,
           failure, callsSinceSave, chatOpen, chatHistory, chatInput,
           chatLoading, chat, chatBefore, chatSends, chatFails, isPlaying,
           speechOrphans, sounding, story, loadingStory, storyRequest,
           index, faceUp >>

\* ----------------------------------------------------------------- domains
WordList == << <<"A">>, <<"B", DQ>>, <<BS, "C">>, <<"D">> >>
Words(n) == {WordList[i] : i \in 1..n}

Explanations == { <<"e">> }
TextData(n)  == [word : Words(n), explanation : Explanations]

ImageUrls == { <<"data:image/png;base64,", "x">> }

Offered == {LANGUAGES[i].code : i \in 1..MaxLangs}

QueryChars == {SP, "q"}
Queries    == SeqsUpTo(QueryChars, 1)

KeyChars == {"k", DQ, BS}
ApiKeys  == SeqsUpTo(KeyChars, MaxKeyLen)

ErrorKinds == {"apikey", "other"}

NoLookup == [active |-> FALSE, reqNative |-> <<>>, reqTarget |-> <<>>,
             text |-> "idle", textData |-> None,
             image |-> "idle", imageUrl |-> None, imageOutcome |-> "none"]

NoSelection == [native |-> <<>>, target |-> <<>>]

Op(name, id) == [op |-> name, id |-> id]

\* what an Error of the definition request can be: its cause, and whether
\* its message contains "API Key" (ErrorKinds); the two are the service's
ErrorCauses == {"credential", "other"}

\* ----------------------------------------------------------- Gemini service
\* process.env.API_KEY: fixed when the bundle is built
API_KEY == <<"k">>

TEXT_MODEL   == <<"gemini-2.5-flash">>
IMAGE_MODEL  == <<"gemini-2.5-flash-image">>
SPEECH_MODEL == <<"gemini-2.5-flash-preview-tts">>

\* getClient() followed by a request to `model`
Call(service, model) == [service |-> service, apiKey |-> API_KEY, model |-> model]

LookupCall == Call("lookup", TEXT_MODEL)
ImageCall  == Call("image", IMAGE_MODEL)
SpeechCall == Call("speech", SPEECH_MODEL)
StoryCall  == Call("story", TEXT_MODEL)
ChatCall   == Call("chat", TEXT_MODEL)

\* ------------------------------------------------------- child components
ChatTexts  == { <<"a">>, <<"b">> }
ChatInputs == { <<>>, <<SP>> } \cup ChatTexts
Replies    == { <<"r">> }
Stories    == { <<"s">> }
PlayIds    == { "main", "ex-0" }

NoChat == [outstanding |-> 0, history |-> <<>>, message |-> <<>>, turns |-> <<>>]

cardVars  == << chatOpen, chatHistory, chatInput, chatLoading, chat,
                chatBefore, chatSends, chatFails, isPlaying >>
storyVars == << story, loadingStory, storyRequest >>
flashVars == << index, faceUp >>

\* the useState initial values of ResultCard and of NotebookView
FreshCard ==
    /\ chatOpen = FALSE
    /\ chatHistory = <<>>
    /\ chatInput = <<>>
    /\ chatLoading = FALSE
    /\ chat = NoChat
    /\ chatBefore = <<>>
    /\ chatSends = 0
    /\ chatFails = 0
    /\ isPlaying = None

FreshStory == story = None /\ loadingStory = FALSE /\ storyRequest = None

\* the initial state of the Flashcard Reviewer: index 0, front face
FreshFlash == index = 0 /\ faceUp = "front"

\* a card / a notebook view is unmounted: its next instance starts afresh
CardReset ==
    /\ chatOpen' = FALSE
    /\ chatHistory' = <<>>
    /\ chatInput' = <<>>
    /\ chatLoading' = FALSE
    /\ chat' = NoChat
    /\ chatBefore' = <<>>
    /\ chatSends' = 0
    /\ chatFails' = 0
    /\ isPlaying' = None

StoryReset == story' = None /\ loadingStory' = FALSE /\ storyRequest' = None

FlashReset == index' = 0 /\ faceUp' = "front"

\* {currentResult && !loading && <ResultCard .../>} inside the search view
CardMounted ==
    ~crashed /\ hasStarted /\ mode = "SEARCH" /\ currentResult # None /\ ~loading

\* {mode === AppMode.NOTEBOOK && <NotebookView .../>}
NotebookMounted == ~crashed /\ hasStarted /\ mode = "NOTEBOOK"

\* {mode === AppMode.FLASHCARDS && ... (savedItems.length > 0 ?
\*    <FlashcardMode items={savedItems} .../> : ...)}
FlashMounted == ~crashed /\ hasStarted /\ mode = "FLASHCARDS" /\ Len(view) > 0

\* the reviewer keeps its state while it stays mounted
FlashFollows ==
    IF FlashMounted /\ FlashMounted'
    THEN UNCHANGED flashVars
    ELSE FlashReset

\* What a step of App does to its children: a child that stays mounted keeps
\* its state, a child that is unmounted loses it (a later mount starts from
\* the initial values, and the responses to the requests of the old instance
\* set no state).  A speech request of an unmounted card is still played.
ChildrenFollow ==
    /\ IF CardMounted /\ CardMounted'
       THEN UNCHANGED << cardVars, speechOrphans >>
       ELSE /\ CardReset
            /\ speechOrphans' = speechOrphans + (IF isPlaying # None THEN 1 ELSE 0)
    /\ IF NotebookMounted /\ NotebookMounted'
       THEN UNCHANGED storyVars
       ELSE StoryReset
    /\ FlashFollows
    /\ UNCHANGED sounding

\* values a damaged store can hold: a write cut short, and the empty string
Truncated(t) == SubSeq(t, 1, Len(t) - 1)

InitialSettingsStore ==
    { None, Some(<<>>),
      Some(StringifySettings(DEFAULT_SETTINGS)),
      Some(Truncated(StringifySettings(DEFAULT_SETTINGS))) }

InitialSavedStore ==
    { None, Some(<<>>),
      Some(StringifyItems(<<>>)),
      Some(Truncated(StringifyItems(<<>>))) }

\* ----------------------------------------------------------------- startup
\* useState initializer of settings
ParsedSettings(p) ==
    IF p.ok THEN [threw |-> FALSE, value |-> AsSettings(p.m)]
    ELSE [threw |-> TRUE, value |-> DEFAULT_SETTINGS]

LoadSettings(ls) ==
    IF ls = None \/ ls[1] = <<>>
    THEN [threw |-> FALSE, value |-> DEFAULT_SETTINGS]
    ELSE ParsedSettings(JSONparse(ls[1]))

\* useState initializer of savedItems
ParsedItems(p) ==
    IF p.ok THEN [threw |-> FALSE, value |-> AsItems(p.m)]
    ELSE [threw |-> TRUE, value |-> <<>>]

LoadSavedItems(ls) ==
    IF ls = None \/ ls[1] = <<>>
    THEN [threw |-> FALSE, value |-> <<>>]
    ELSE ParsedItems(JSONparse(ls[1]))

\* the component state after the first render of App
Mounted(s, n) ==
    [crashed       |-> s.threw \/ n.threw,
     settings      |-> s.value,
     savedItems    |-> IF s.threw \/ n.threw THEN <<>> ELSE n.value,
     effectPending |-> ~(s.threw \/ n.threw)]

Mount(lsSet, lsSav) == Mounted(LoadSettings(lsSet), LoadSavedItems(lsSav))

\* the first render of App over what localStorage holds
Loaded ==
    /\ \E m \in {Mount(lsSettings, lsSaved)} :
           /\ crashed = m.crashed
           /\ settings = m.settings
           /\ savedItems = m.savedItems
           /\ view = m.savedItems
           /\ effectPending = m.effectPending
    /\ hasStarted = FALSE
    /\ nativeLang = LANGUAGES[1]
    /\ targetLang = LANGUAGES[3]
    /\ mode = "SEARCH"
    /\ query = <<>>
    /\ loading = FALSE
    /\ currentResult = None
    /\ showSettings = FALSE
    /\ lookup = NoLookup
    /\ alertShown = "none"
    /\ nextId = 0
    /\ clock = 0
    /\ restarts = 0
    /\ persisted = None
    /\ submitted = NoSelection
    /\ produced = <<>>
    /\ lastOp = Op("mount", 0)
    /\ failure = "none"
    /\ callsSinceSave = {}
    /\ FreshCard
    /\ FreshStory
    /\ FreshFlash
    /\ speechOrphans = 0
    /\ sounding = 0

Init ==
    /\ lsSettings \in InitialSettingsStore
    /\ lsSaved \in InitialSavedStore
    /\ Loaded

\* reloading the page: the component state is rebuilt from localStorage
Restart ==
    /\ restarts < MaxRestarts
    /\ restarts' = restarts + 1
    /\ \E m \in {Mount(lsSettings, lsSaved)} :
           /\ crashed' = m.crashed
           /\ settings' = m.settings
           /\ savedItems' = m.savedItems
           /\ view' = m.savedItems
           /\ effectPending' = m.effectPending
    /\ hasStarted' = FALSE
    /\ nativeLang' = LANGUAGES[1]
    /\ targetLang' = LANGUAGES[3]
    /\ mode' = "SEARCH"
    /\ query' = <<>>
    /\ loading' = FALSE
    /\ currentResult' = None
    /\ showSettings' = FALSE
    /\ lookup' = NoLookup
    /\ alertShown' = "none"
    /\ lastOp' = Op("mount", 0)
    /\ failure' = "none"
    /\ CardReset
    /\ StoryReset
    /\ FlashReset
    /\ speechOrphans' = 0
    /\ sounding' = 0
    /\ UNCHANGED << lsSettings, lsSaved, nextId, clock, persisted, submitted,
                    produced, callsSinceSave >>

\* mutant: only the newest item is written
SavedToStoreNewestOnly(items) ==
    StringifyItems(IF items = <<>> THEN <<>> ELSE <<Head(items)>>)

\* the value the effect stores under 'lingopop_saved'
SavedToStore(items) == StringifyItems(items)

\* React commits the render and runs useEffect(..., [savedItems])
Commit ==
    /\ ~crashed
    /\ effectPending
    /\ view' = savedItems
    /\ lsSaved' = Some(SavedToStore(savedItems))
    /\ effectPending' = FALSE
    /\ alertShown' = "none"
    /\ lastOp' = Op("commit", 0)
    /\ UNCHANGED << hasStarted, nativeLang, targetLang, mode, query, loading,
                    currentResult, showSettings, settings, savedItems,
                    lsSettings, lookup, crashed, nextId, clock, restarts,
                    persisted, submitted, produced, failure, callsSinceSave >>
    /\ UNCHANGED << cardVars, storyVars, speechOrphans, sounding >>
    /\ FlashFollows

\* ------------------------------------------------------- frames of the steps
notebookVars == << savedItems, view, effectPending, lsSaved, nextId >>
settingsVars == << settings, lsSettings, persisted >>
lookupVars   == << loading, lookup, clock, submitted, produced, failure >>
langVars     == << nativeLang, targetLang >>
bootVars     == << crashed, restarts >>

Running == ~crashed /\ hasStarted

\* ----------------------------------------------------- welcome and header
\* WelcomeScreen onStart
Start ==
    /\ ~crashed /\ ~hasStarted
    /\ hasStarted' = TRUE
    /\ alertShown' = "none"
    /\ lastOp' = Op("other", 0)
    /\ UNCHANGED << mode, query, currentResult, showSettings >>
    /\ UNCHANGED << notebookVars, settingsVars, lookupVars, langVars, bootVars >>
    /\ UNCHANGED callsSinceSave
    /\ ChildrenFollow

\* LANGUAGES.find(l => l.code === code) || fallback
FindLanguage(code, fallback) ==
    IF \E i \in 1..Len(LANGUAGES) : LANGUAGES[i].code = code
    THEN LANGUAGES[CHOOSE i \in 1..Len(LANGUAGES) :
            /\ LANGUAGES[i].code = code
            /\ \A j \in 1..(i - 1) : LANGUAGES[j].code # code]
    ELSE fallback

\* onChange of the native-language select
ChangeNativeLang(code) ==
    /\ ~crashed
    /\ nativeLang' = FindLanguage(code, LANGUAGES[1])
    /\ nativeLang' # nativeLang
    /\ alertShown' = "none"
    /\ lastOp' = Op("other", 0)
    /\ UNCHANGED << hasStarted, targetLang, mode, query, currentResult, showSettings >>
    /\ UNCHANGED << notebookVars, settingsVars, lookupVars, bootVars >>
    /\ UNCHANGED callsSinceSave
    /\ ChildrenFollow

\* onChange of the target-language select
ChangeTargetLang(code) ==
    /\ ~crashed
    /\ targetLang' = FindLanguage(code, LANGUAGES[2])
    /\ targetLang' # targetLang
    /\ alertShown' = "none"
    /\ lastOp' = Op("other", 0)
    /\ UNCHANGED << hasStarted, nativeLang, mode, query, currentResult, showSettings >>
    /\ UNCHANGED << notebookVars, settingsVars, lookupVars, bootVars >>
    /\ UNCHANGED callsSinceSave
    /\ ChildrenFollow

\* the Notebook and Flashcards buttons of the header, and "Exit Study Mode"
\* (no button sets the mode to SEARCH)
SetMode(m) ==
    /\ Running
    /\ m \in {"NOTEBOOK", "FLASHCARDS"}
    /\ mode # m
    /\ mode' = m
    /\ alertShown' = "none"
    /\ lastOp' = Op("other", 0)
    /\ UNCHANGED << hasStarted, query, currentResult, showSettings >>
    /\ UNCHANGED << notebookVars, settingsVars, lookupVars, langVars, bootVars >>
    /\ UNCHANGED callsSinceSave
    /\ ChildrenFollow

\* click on the logo: back to an empty search view
ResetSearch ==
    /\ Running
    /\ mode' = "SEARCH"
    /\ currentResult' = None
    /\ alertShown' = "none"
    /\ lastOp' = Op("other", 0)
    /\ UNCHANGED << hasStarted, query, showSettings >>
    /\ UNCHANGED << notebookVars, settingsVars, lookupVars, langVars, bootVars >>
    /\ UNCHANGED callsSinceSave
    /\ ChildrenFollow

\* onChange of the search box
SetQuery(q) ==
    /\ Running /\ mode = "SEARCH"
    /\ q # query
    /\ query' = q
    /\ alertShown' = "none"
    /\ lastOp' = Op("other", 0)
    /\ UNCHANGED << hasStarted, mode, currentResult, showSettings >>
    /\ UNCHANGED << notebookVars, settingsVars, lookupVars, langVars, bootVars >>
    /\ UNCHANGED callsSinceSave
    /\ ChildrenFollow

\* ------------------------------------------------------------------ lookup
\* mutant: the language names are read when the responses arrive
MergeResultLiveSelection(textData, imageUrl, now, reqNative, reqTarget) ==
    [word        |-> textData.word,
     explanation |-> textData.explanation,
     imageUrl    |-> imageUrl,
     timestamp   |-> now,
     sourceLang  |-> nativeLang.name,
     targetLang  |-> targetLang.name]

\* the object handed to setCurrentResult
MergeResult(textData, imageUrl, now, reqNative, reqTarget) ==
    [word        |-> textData.word,
     explanation |-> textData.explanation,
     imageUrl    |-> imageUrl,
     timestamp   |-> now,
     sourceLang  |-> reqNative,
     targetLang  |-> reqTarget]

\* mutant: the catch only logs, as the chat handler's does
CatchMessageSilent(kind) == "none"

\* catch (error) { ... alert(errorMsg) }: the message and whether the
\* settings dialog opens
CatchMessage(kind) == IF kind = "apikey" THEN "apikey" ELSE "generic"
CatchOpensSettings(kind) == kind = "apikey"

\* mutant: only the definition is awaited
TextFulfilled(lk) == lk.text = "ok"

\* Promise.all([textPromise, imagePromise]) is fulfilled
AllFulfilled(lk) == lk.text = "ok" /\ lk.image = "settled"

\* mutant: setLoading(false) closes the try block; the catch leaves the flag
LoadingAfterNoFinally(outcome) == outcome = "failed"

\* finally { setLoading(false) }: the flag after the lookup ended with outcome
LoadingAfter(outcome) == FALSE

\* the rest of handleSearch after await Promise.all, for the requests lk
\* (kind, cause: the error of the first rejected request)
Resume(lk, kind, cause) ==
    IF lk.text = "rejected" \/ lk.image = "rejected"
    THEN \* catch, finally
         /\ alertShown' = CatchMessage(kind)
         /\ showSettings' = (showSettings \/ CatchOpensSettings(kind))
         /\ loading' = LoadingAfter("failed")
         /\ lookup' = [lk EXCEPT !.active = FALSE]
         /\ lastOp' = Op("lookupFailed", 0)
         /\ failure' = cause
         /\ UNCHANGED << currentResult, clock, produced >>
    ELSE IF AllFulfilled(lk)
    THEN \* setCurrentResult, finally
         /\ clock' = clock + 1
         /\ currentResult' = Some(MergeResult(lk.textData[1], lk.imageUrl, clock',
                                              lk.reqNative, lk.reqTarget))
         /\ produced' = Append(produced, submitted)
         /\ alertShown' = "none"
         /\ loading' = LoadingAfter("done")
         /\ lookup' = [lk EXCEPT !.active = FALSE]
         /\ lastOp' = Op("lookupDone", 0)
         /\ UNCHANGED << showSettings, failure >>
    ELSE \* Promise.all is still pending
         /\ lookup' = lk
         /\ alertShown' = "none"
         /\ lastOp' = Op("other", 0)
         /\ UNCHANGED << currentResult, clock, produced, showSettings, loading,
                         failure >>

\* onSubmit of the search form.  clientOk: getClient() constructs a client;
\* when it throws, both async functions reject before any request is sent
\* (kind: what the message of that error says).
HandleSearch(clientOk, kind) ==
    /\ Running /\ mode = "SEARCH"
    /\ ~loading                         \* the submit button is disabled
    /\ IF Trim(query) = <<>>
       THEN /\ alertShown' = "none"
            /\ lastOp' = Op("emptySubmit", 0)
            /\ UNCHANGED << hasStarted, mode, query, currentResult, showSettings >>
            /\ UNCHANGED << lookupVars, callsSinceSave >>
       ELSE /\ submitted' = [native |-> nativeLang.name, target |-> targetLang.name]
            /\ mode' = "SEARCH"
            /\ LET lk == [active    |-> TRUE,
                          reqNative |-> nativeLang.name,
                          reqTarget |-> targetLang.name,
                          text      |-> IF clientOk THEN "pending" ELSE "rejected",
                          textData  |-> None,
                          image     |-> IF clientOk THEN "pending" ELSE "rejected",
                          imageUrl  |-> None,
                          imageOutcome |-> "none"]
               IN  IF clientOk
                   THEN /\ loading' = TRUE
                        /\ currentResult' = None
                        /\ lookup' = lk
                        /\ alertShown' = "none"
                        /\ lastOp' = Op("handleSearch", 0)
                        /\ failure' = "none"
                        /\ callsSinceSave' = callsSinceSave \cup {LookupCall, ImageCall}
                        /\ UNCHANGED << clock, produced, showSettings >>
                   ELSE /\ alertShown' = CatchMessage(kind)
                        /\ showSettings' = (showSettings \/ CatchOpensSettings(kind))
                        /\ loading' = LoadingAfter("failed")
                        /\ currentResult' = None
                        /\ lookup' = [lk EXCEPT !.active = FALSE]
                        /\ lastOp' = Op("lookupFailed", 0)
                        /\ failure' = (IF kind = "apikey" THEN "credential" ELSE "other")
                        /\ UNCHANGED << clock, produced, callsSinceSave >>
            /\ UNCHANGED << hasStarted, query >>
    /\ UNCHANGED << notebookVars, settingsVars, langVars, bootVars >>
    /\ ChildrenFollow

\* lookupWord resolves with the parsed response
TextResolves(data) ==
    /\ ~crashed
    /\ lookup.active /\ lookup.text = "pending"
    /\ Resume([lookup EXCEPT !.text = "ok", !.textData = Some(data)], "other", "other")
    /\ UNCHANGED << hasStarted, mode, query, submitted >>
    /\ UNCHANGED << notebookVars, settingsVars, langVars, bootVars >>
    /\ UNCHANGED callsSinceSave
    /\ ChildrenFollow

\* lookupWord rejects: the request failed or its response does not parse
TextRejects(kind, cause) ==
    /\ ~crashed
    /\ lookup.active /\ lookup.text = "pending"
    /\ Resume([lookup EXCEPT !.text = "rejected"], kind, cause)
    /\ UNCHANGED << hasStarted, mode, query, submitted >>
    /\ UNCHANGED << notebookVars, settingsVars, langVars, bootVars >>
    /\ UNCHANGED callsSinceSave
    /\ ChildrenFollow

\* generateConceptImage after its request came back: a data URI when the
\* response carries inline data, undefined when it carries none or when the
\* request failed (the catch returns undefined)
ImageOutcomes == {"inline", "empty", "failed"}

\* mutant: no try / catch around the request
ConceptImageUncaught(outcome, url) ==
    [image    |-> IF outcome = "failed" THEN "rejected" ELSE "settled",
     imageUrl |-> IF outcome = "inline" THEN Some(url) ELSE None]

ConceptImage(outcome, url) ==
    [image    |-> "settled",
     imageUrl |-> IF outcome = "inline" THEN Some(url) ELSE None]

ImageSettles(outcome, url) ==
    /\ ~crashed
    /\ lookup.image = "pending"
    /\ LET r  == ConceptImage(outcome, url)
           lk == [lookup EXCEPT !.image = r.image, !.imageUrl = r.imageUrl,
                                !.imageOutcome = outcome]
       IN  IF lookup.active
           THEN Resume(lk, "other", "other")
           ELSE /\ lookup' = lk
                /\ alertShown' = "none"
                /\ lastOp' = Op("other", 0)
                /\ UNCHANGED << currentResult, clock, produced, showSettings,
                                loading, failure >>
    /\ UNCHANGED << hasStarted, mode, query, submitted >>
    /\ UNCHANGED << notebookVars, settingsVars, langVars, bootVars >>
    /\ UNCHANGED callsSinceSave
    /\ ChildrenFollow

\* ---------------------------------------------------------------- notebook
\* { ...item, id }
WithId(item, id) ==
    [word        |-> item.word,
     explanation |-> item.explanation,
     imageUrl    |-> item.imageUrl,
     timestamp   |-> item.timestamp,
     sourceLang  |-> item.sourceLang,
     targetLang  |-> item.targetLang,
     id          |-> id]

\* savedItems.some(i => i.word === word)
HasWord(items, word) == \E i \in 1..Len(items) : items[i].word = word

\* mutant: the filter stops at the first match
RECURSIVE WithoutIdAndRest(_, _)
WithoutIdAndRest(items, id) ==
    IF items = <<>> THEN <<>>
    ELSE IF Head(items).id = id THEN <<>>
    ELSE <<Head(items)>> \o WithoutIdAndRest(Tail(items), id)

\* prev.filter(i => i.id !== id)
RECURSIVE WithoutId(_, _)
WithoutId(items, id) ==
    IF items = <<>> THEN <<>>
    ELSE IF Head(items).id = id THEN WithoutId(Tail(items), id)
    ELSE <<Head(items)>> \o WithoutId(Tail(items), id)

\* the list saveItem tests for a duplicate: the savedItems of its render
SaveCheckList == view

\* mutant: the new item is put at the end
PrependAtEnd(newItem, prev) == prev \o <<newItem>>

\* setSavedItems(prev => [newItem, ...prev])
Prepend(newItem, prev) == <<newItem>> \o prev

\* the bookmark button of the result card: onSave(result)
SaveItem ==
    /\ Running /\ mode = "SEARCH"
    /\ currentResult # None /\ ~loading      \* the result card is shown
    /\ alertShown' = "none"
    /\ IF HasWord(SaveCheckList, currentResult[1].word)
       THEN /\ lastOp' = Op("saveSkipped", 0)
            /\ UNCHANGED << notebookVars >>
       ELSE /\ lastOp' = Op("saveItem", 0)
            /\ nextId' = nextId + 1
            /\ savedItems' = Prepend(WithId(currentResult[1], nextId'), savedItems)
            /\ effectPending' = TRUE
            /\ UNCHANGED << view, lsSaved >>
    /\ UNCHANGED << hasStarted, mode, query, currentResult, showSettings >>
    /\ UNCHANGED << settingsVars, lookupVars, langVars, bootVars >>
    /\ UNCHANGED callsSinceSave
    /\ ChildrenFollow

\* the trash button of a notebook row: onDelete(item.id)
DeleteItem(id) ==
    /\ Running /\ mode = "NOTEBOOK"
    /\ \E i \in 1..Len(view) : view[i].id = id
    /\ savedItems' = WithoutId(savedItems, id)
    /\ effectPending' = TRUE
    /\ lastOp' = Op("deleteItem", id)
    /\ alertShown' = "none"
    /\ UNCHANGED << view, lsSaved, nextId >>
    /\ UNCHANGED << hasStarted, mode, query, currentResult, showSettings >>
    /\ UNCHANGED << settingsVars, lookupVars, langVars, bootVars >>
    /\ UNCHANGED callsSinceSave
    /\ ChildrenFollow

\* click on a notebook row: onReview(item)
ReviewItem(i) ==
    /\ Running /\ mode = "NOTEBOOK"
    /\ i \in 1..Len(view)
    /\ currentResult' = Some(view[i])
    /\ mode' = "SEARCH"
    /\ lastOp' = Op("reviewItem", view[i].id)
    /\ alertShown' = "none"
    /\ UNCHANGED << hasStarted, query, showSettings >>
    /\ UNCHANGED << notebookVars, settingsVars, lookupVars, langVars, bootVars >>
    /\ UNCHANGED callsSinceSave
    /\ ChildrenFollow

\* ---------------------------------------------------------------- settings
\* the Settings button of the header, and the X of the dialog
SetShowSettings(b) ==
    /\ Running
    /\ showSettings # b
    /\ showSettings' = b
    /\ lastOp' = Op("other", 0)
    /\ alertShown' = "none"
    /\ UNCHANGED << hasStarted, mode, query, currentResult >>
    /\ UNCHANGED << notebookVars, settingsVars, lookupVars, langVars, bootVars >>
    /\ UNCHANGED callsSinceSave
    /\ ChildrenFollow

\* onChange of the API-key box: setSettings({...settings, apiKey})
SetApiKey(k) ==
    /\ Running /\ showSettings
    /\ k # settings.apiKey
    /\ settings' = [settings EXCEPT !.apiKey = k]
    /\ lastOp' = Op("other", 0)
    /\ alertShown' = "none"
    /\ UNCHANGED << hasStarted, mode, query, currentResult, showSettings,
                    lsSettings, persisted >>
    /\ UNCHANGED << notebookVars, lookupVars, langVars, bootVars >>
    /\ UNCHANGED callsSinceSave
    /\ ChildrenFollow

\* onChange of the model select: setSettings({...settings, textModel})
SetTextModel(m) ==
    /\ Running /\ showSettings
    /\ m # settings.textModel
    /\ settings' = [settings EXCEPT !.textModel = m]
    /\ lastOp' = Op("other", 0)
    /\ alertShown' = "none"
    /\ UNCHANGED << hasStarted, mode, query, currentResult, showSettings,
                    lsSettings, persisted >>
    /\ UNCHANGED << notebookVars, lookupVars, langVars, bootVars >>
    /\ UNCHANGED callsSinceSave
    /\ ChildrenFollow

\* mutant: only the key is written
SettingsToStoreKeyOnly(s) ==
    <<"{">> \o StrMember("apiKey", s.apiKey) \o <<"}">>

\* the value saveSettings stores under 'lingopop_settings'
SettingsToStore(s) == StringifySettings(s)

\* the Save Settings button
SaveSettings ==
    /\ Running /\ showSettings
    /\ lsSettings' = Some(SettingsToStore(settings))
    /\ persisted' = Some(settings)
    /\ showSettings' = FALSE
    /\ alertShown' = "saved"
    /\ lastOp' = Op("saveSettings", 0)
    /\ UNCHANGED << hasStarted, mode, query, currentResult, settings >>
    /\ UNCHANGED << notebookVars, lookupVars, langVars, bootVars >>
    /\ callsSinceSave' = {}
    /\ ChildrenFollow

\* ------------------------------------------------------------- result card
\* what a step of a child component leaves alone in App
appVars == << hasStarted, mode, query, currentResult, showSettings,
              notebookVars, settingsVars, lookupVars, langVars, bootVars >>

\* "Ask more about this", and the X of the chat overlay
SetChatOpen(b) ==
    /\ CardMounted
    /\ chatOpen # b
    /\ chatOpen' = b
    /\ alertShown' = "none"
    /\ lastOp' = Op("other", 0)
    /\ UNCHANGED << chatHistory, chatInput, chatLoading, chat, chatBefore,
                    chatSends, chatFails, isPlaying >>
    /\ UNCHANGED << appVars, flashVars, storyVars, speechOrphans, sounding, callsSinceSave >>

\* onChange of the chat box
SetChatInput(t) ==
    /\ CardMounted /\ chatOpen
    /\ t # chatInput
    /\ chatInput' = t
    /\ alertShown' = "none"
    /\ lastOp' = Op("other", 0)
    /\ UNCHANGED << chatOpen, chatHistory, chatLoading, chat, chatBefore,
                    chatSends, chatFails, isPlaying >>
    /\ UNCHANGED << appVars, flashVars, storyVars, speechOrphans, sounding, callsSinceSave >>

UserMessage(t)  == [role |-> "user", text |-> t]
ModelMessage(t) == [role |-> "model", text |-> t]

\* mutant: the send button is never disabled
ChatSubmitAlways == TRUE

\* <button type="submit" disabled={chatLoading}>: while it is disabled the
\* form is submitted neither by a click nor by Enter in the chat box
ChatSubmitEnabled == ~chatLoading

\* mutant: the reply is put in front of the transcript
WithReplyInFront(history, r) == << ModelMessage(r) >> \o history

\* mutant: the reply replaces the message it answers
WithReplyReplacing(history, r) ==
    SubSeq(history, 1, Len(history) - 1) \o << ModelMessage(r) >>

\* setChatHistory(prev => [...prev, { role: 'model', text: responseText }])
WithReply(history, r) == Append(history, ModelMessage(r))

\* mutant: the catch takes the unanswered message back
AfterChatErrorRetracting(history) == SubSeq(history, 1, Len(history) - 1)

\* catch (err) { console.error(err) }: the transcript is left as it is
AfterChatError(history) == history

\* a turn of the conversation as the chat collaborator takes it
Turn(role, text) == [role |-> role, parts |-> << [text |-> text] >>]

\* a || b on strings
OrElse(a, b) == IF a = <<>> THEN b ELSE a

\* the two turns getChatResponse puts before the transcript; the first one
\* is a template over the word, the two language names and the definition
PrimingTurns(context, targetLangName, nativeLangName) ==
    << Turn("user", << "System:", context.word, targetLangName, nativeLangName,
                       context.explanation >>),
       Turn("model", << "Understood!" >>) >>

\* history.map(h => ({ role: h.role, parts: [{ text: h.text }] }))
HistoryTurns(history) == [i \in 1..Len(history) |-> Turn(history[i].role, history[i].text)]

\* mutant: the transcript is sent with the new message already in it
ChatTurnsMessageTwice(history, newMessage, context, targetLangName, nativeLangName) ==
    PrimingTurns(context, targetLangName, nativeLangName)
        \o HistoryTurns(Append(history, [role |-> "user", text |-> newMessage]))
        \o << Turn("user", newMessage) >>

\* what the chat collaborator is given: the history of ai.chats.create, then
\* the message of chat.sendMessage
ChatTurns(history, newMessage, context, targetLangName, nativeLangName) ==
    PrimingTurns(context, targetLangName, nativeLangName)
        \o HistoryTurns(history)
        \o << Turn("user", newMessage) >>

\* onSubmit of the chat form.  clientOk: getClient() constructs a client;
\* when it throws, getChatResponse rejects before any request is sent.
HandleChatSubmit(clientOk) ==
    /\ CardMounted /\ chatOpen
    /\ ChatSubmitEnabled
    /\ alertShown' = "none"
    /\ IF Trim(chatInput) = <<>>
       THEN /\ lastOp' = Op("chatEmpty", 0)
            /\ UNCHANGED << chatHistory, chatInput, chatLoading, chat,
                            chatBefore, chatSends, chatFails, callsSinceSave >>
       ELSE /\ chatBefore' = chatHistory
            /\ chatInput' = <<>>
            /\ chat' = [outstanding |-> chat.outstanding + (IF clientOk THEN 1 ELSE 0),
                        history     |-> chatHistory,
                        message     |-> chatInput,
                        turns       |-> IF clientOk
                                        THEN ChatTurns(chatHistory, chatInput,
                                                 currentResult[1],
                                                 OrElse(currentResult[1].targetLang,
                                                        targetLang.name),
                                                 OrElse(currentResult[1].sourceLang,
                                                        nativeLang.name))
                                        ELSE <<>>]
            /\ IF clientOk
               THEN /\ chatHistory' = Append(chatHistory, UserMessage(chatInput))
                    /\ chatLoading' = TRUE
                    /\ callsSinceSave' = callsSinceSave \cup {ChatCall}
                    /\ lastOp' = Op("chatSend", 0)
                    /\ UNCHANGED << chatSends, chatFails >>
               ELSE /\ chatHistory' =
                           AfterChatError(Append(chatHistory, UserMessage(chatInput)))
                    /\ chatLoading' = FALSE
                    /\ chatFails' = chatFails + 1
                    /\ lastOp' = Op("chatFailed", 0)
                    /\ UNCHANGED << chatSends, callsSinceSave >>
    /\ UNCHANGED << chatOpen, isPlaying >>
    /\ UNCHANGED << appVars, flashVars, storyVars, speechOrphans, sounding >>

\* chat.sendMessage resolves with the reply
ChatResolves(r) ==
    /\ CardMounted
    /\ chat.outstanding > 0
    /\ chat' = [chat EXCEPT !.outstanding = @ - 1]
    /\ chatHistory' = WithReply(chatHistory, r)
    /\ chatLoading' = FALSE
    /\ chatSends' = chatSends + 1
    /\ alertShown' = "none"
    /\ lastOp' = Op("chatReplied", 0)
    /\ UNCHANGED << chatOpen, chatInput, chatBefore, chatFails, isPlaying >>
    /\ UNCHANGED << appVars, flashVars, storyVars, speechOrphans, sounding, callsSinceSave >>

\* chat.sendMessage rejects
ChatRejects ==
    /\ CardMounted
    /\ chat.outstanding > 0
    /\ chat' = [chat EXCEPT !.outstanding = @ - 1]
    /\ chatHistory' = AfterChatError(chatHistory)
    /\ chatLoading' = FALSE
    /\ chatFails' = chatFails + 1
    /\ alertShown' = "none"
    /\ lastOp' = Op("chatFailed", 0)
    /\ UNCHANGED << chatOpen, chatInput, chatBefore, chatSends, isPlaying >>
    /\ UNCHANGED << appVars, flashVars, storyVars, speechOrphans, sounding, callsSinceSave >>

\* ------------------------------------------------------------------- speech
\* generateSpeech after its request came back: the payload, or null when the
\* response carries none or the request failed (the catch returns null)
SpeechOutcomes == {"audio", "null"}

\* playAudioData: source.start(0) was reached, or something before it threw
\* and the catch swallowed it.  Either way its promise resolves at once: it
\* does not wait for the end of the playback.
PlayOutcomes == {"started", "threw"}

Started(outcome, played) ==
    IF outcome = "audio" /\ played = "started" THEN 1 ELSE 0

\* a play button of the card (disabled={!!isPlaying}; the handler returns
\* when isPlaying is set).  clientOk: getClient() constructs a client; when
\* it throws, generateSpeech rejects and the handler's catch / finally run.
HandlePlayAudio(id, clientOk) ==
    /\ CardMounted
    /\ isPlaying = None
    /\ IF clientOk
       THEN /\ isPlaying' = Some(id)
            /\ callsSinceSave' = callsSinceSave \cup {SpeechCall}
            /\ lastOp' = Op("play", 0)
       ELSE /\ isPlaying' = None
            /\ lastOp' = Op("playFailed", 0)
            /\ UNCHANGED callsSinceSave
    /\ alertShown' = "none"
    /\ UNCHANGED << chatOpen, chatHistory, chatInput, chatLoading, chat,
                    chatBefore, chatSends, chatFails >>
    /\ UNCHANGED << appVars, flashVars, storyVars, speechOrphans, sounding >>

\* the speech request of the card comes back: playAudioData, then finally
SpeechSettles(outcome, played) ==
    /\ CardMounted
    /\ isPlaying # None
    /\ sounding' = sounding + Started(outcome, played)
    /\ isPlaying' = None
    /\ alertShown' = "none"
    /\ lastOp' = Op("speechSettled", 0)
    /\ UNCHANGED << chatOpen, chatHistory, chatInput, chatLoading, chat,
                    chatBefore, chatSends, chatFails >>
    /\ UNCHANGED << appVars, flashVars, storyVars, speechOrphans, callsSinceSave >>

\* the speech request of a card that is gone comes back: it is played too
OrphanSpeechSettles(outcome, played) ==
    /\ ~crashed
    /\ speechOrphans > 0
    /\ speechOrphans' = speechOrphans - 1
    /\ sounding' = sounding + Started(outcome, played)
    /\ alertShown' = "none"
    /\ lastOp' = Op("speechSettled", 0)
    /\ UNCHANGED << appVars, flashVars, cardVars, storyVars, callsSinceSave >>

\* an AudioBufferSourceNode reaches the end of its buffer
AudioEnds ==
    /\ ~crashed
    /\ sounding > 0
    /\ sounding' = sounding - 1
    /\ alertShown' = "none"
    /\ lastOp' = Op("audioEnded", 0)
    /\ UNCHANGED << appVars, flashVars, cardVars, storyVars, speechOrphans, callsSinceSave >>

\* ------------------------------------------------------------ notebook view
\* items.slice(0, 10)
STORY_LIMIT == 10

\* mutant: the whole notebook is sent
StoryItemsAll(items) == items

StoryItems(items) ==
    SubSeq(items, 1, IF Len(items) < STORY_LIMIT THEN Len(items) ELSE STORY_LIMIT)

\* items.map(i => i.word).join(", ")
RECURSIVE JoinWords(_)
JoinWords(items) ==
    IF items = <<>> THEN <<>>
    ELSE IF Len(items) = 1 THEN items[1].word
    ELSE items[1].word \o <<",", SP>> \o JoinWords(Tail(items))

\* the "Weave Story" button (disabled={loadingStory || items.length < 2}; the
\* view without items has no button).  items is the savedItems of the render.
\* clientOk: getClient() constructs a client; when it throws, weaveStory
\* rejects before any request is sent.
HandleWeaveStory(clientOk) ==
    /\ NotebookMounted
    /\ ~loadingStory /\ Len(view) >= 2
    /\ IF clientOk
       THEN /\ loadingStory' = TRUE
            /\ storyRequest' = Some([words      |-> JoinWords(StoryItems(view)),
                                     nativeLang |-> nativeLang.name])
            /\ callsSinceSave' = callsSinceSave \cup {StoryCall}
            /\ lastOp' = Op("weaveStory", 0)
       ELSE /\ lastOp' = Op("weaveFailed", 0)
            /\ UNCHANGED << loadingStory, storyRequest, callsSinceSave >>
    /\ alertShown' = "none"
    /\ UNCHANGED story
    /\ UNCHANGED << appVars, flashVars, cardVars, speechOrphans, sounding >>

\* weaveStory resolves: setStory(generated), finally
StoryResolves(t) ==
    /\ NotebookMounted
    /\ loadingStory
    /\ story' = Some(t)
    /\ loadingStory' = FALSE
    /\ alertShown' = "none"
    /\ lastOp' = Op("storyDone", 0)
    /\ UNCHANGED storyRequest
    /\ UNCHANGED << appVars, flashVars, cardVars, speechOrphans, sounding, callsSinceSave >>

\* weaveStory rejects: catch, finally
StoryRejects ==
    /\ NotebookMounted
    /\ loadingStory
    /\ loadingStory' = FALSE
    /\ alertShown' = "none"
    /\ lastOp' = Op("storyFailed", 0)
    /\ UNCHANGED << story, storyRequest >>
    /\ UNCHANGED << appVars, flashVars, cardVars, speechOrphans, sounding, callsSinceSave >>

\* "Close Story"
CloseStory ==
    /\ NotebookMounted
    /\ story # None
    /\ story' = None
    /\ alertShown' = "none"
    /\ lastOp' = Op("other", 0)
    /\ UNCHANGED << loadingStory, storyRequest >>
    /\ UNCHANGED << appVars, flashVars, cardVars, speechOrphans, sounding, callsSinceSave >>

\* ----------------------------------------------------------- flashcard mode
\* Showing(index, faceUp) over items, the savedItems of the render.  The
\* reviewer makes no request and has no final state: "Exit Study Mode" and
\* the header leave it (SetMode).

\* mutant: the review stops at the last item
NextIndexStopping(i, n) == IF i + 1 < n THEN i + 1 ELSE i

\* advance: index+1, wrapping at the end of the sequence
NextIndex(i, n) == (i + 1) % n

\* reveal flips the card
Flipped(face) == IF face = "front" THEN "back" ELSE "front"

Reveal ==
    /\ FlashMounted
    /\ faceUp' = Flipped(faceUp)
    /\ UNCHANGED index
    /\ alertShown' = "none"
    /\ lastOp' = Op("reveal", 0)
    /\ UNCHANGED << appVars, cardVars, storyVars, speechOrphans, sounding,
                    callsSinceSave >>

\* advance: the next item, front face
Advance ==
    /\ FlashMounted
    /\ index' = NextIndex(index, Len(view))
    /\ faceUp' = "front"
    /\ alertShown' = "none"
    /\ lastOp' = Op("advance", 0)
    /\ UNCHANGED << appVars, cardVars, storyVars, speechOrphans, sounding,
                    callsSinceSave >>

\* ---------------------------------------------------------- specifications
\* a first visit: nothing stored yet
FreshInit == Init /\ lsSettings = None /\ lsSaved = None

\* the lookup pipeline: every outcome of the two requests, with the language
\* selection changing at any time, and the notebook fed by its results
Next ==
    \/ Start
    \/ \E c \in Offered : ChangeNativeLang(c)
    \/ \E c \in Offered : ChangeTargetLang(c)
    \/ SetMode("NOTEBOOK")
    \/ ResetSearch
    \/ \E q \in Queries : ~loading /\ SetQuery(q)
    \/ \E ok \in BOOLEAN, kind \in ErrorKinds :
            clock < MaxLookups /\ HandleSearch(ok, kind)
    \/ \E d \in TextData(MaxWords) : TextResolves(d)
    \/ \E kind \in ErrorKinds, cause \in ErrorCauses : TextRejects(kind, cause)
    \/ \E o \in ImageOutcomes, u \in ImageUrls : ImageSettles(o, u)
    \/ nextId < MaxLookups /\ SaveItem
    \/ \E i \in 1..MaxLookups : ReviewItem(i)
    \/ Commit

Spec == FreshInit /\ [][Next]_vars

\* the notebook: saves, deletions, reviews, the persisting effect and page
\* reloads, fed by lookups that succeed without an illustration
NotebookNext ==
    \/ Start
    \/ SetMode("NOTEBOOK")
    \/ ResetSearch
    \/ SetQuery(<<"q">>)
    \/ clock < MaxSaves /\ HandleSearch(TRUE, "other")
    \/ \E d \in TextData(MaxSaves) : TextResolves(d)
    \/ \E u \in ImageUrls : ImageSettles("failed", u)
    \/ nextId < MaxSaves /\ SaveItem
    \/ \E id \in 1..MaxSaves : DeleteItem(id)
    \/ \E i \in 1..MaxSaves : ReviewItem(i)
    \/ Commit
    \/ Restart

NotebookSpec == FreshInit /\ [][NotebookNext]_vars

\* the settings dialog and the startup, from every stored value
SettingsNext ==
    \/ Start
    \/ \E b \in BOOLEAN : SetShowSettings(b)
    \/ \E k \in ApiKeys : SetApiKey(k)
    \/ \E m \in {AI_MODELS[i] : i \in 1..Len(AI_MODELS)} : SetTextModel(m)
    \/ SaveSettings
    \/ Commit
    \/ Restart

SettingsSpec == Init /\ [][SettingsNext]_vars

\* the result card: chat and speech on the result of a lookup, with the card
\* unmounted at any time by a click on the logo
CardNext ==
    \/ Start
    \/ SetQuery(<<"q">>)
    \/ ResetSearch
    \/ clock < MaxLookups /\ HandleSearch(TRUE, "other")
    \/ \E d \in TextData(MaxWords) : TextResolves(d)
    \/ \E u \in ImageUrls : ImageSettles("failed", u)
    \/ \E b \in BOOLEAN : SetChatOpen(b)
    \/ \E t \in ChatInputs : SetChatInput(t)
    \/ \E ok \in BOOLEAN :
            chatSends + chatFails + chat.outstanding < MaxSends /\ HandleChatSubmit(ok)
    \/ \E r \in Replies : ChatResolves(r)
    \/ ChatRejects
    \/ \E id \in PlayIds, ok \in BOOLEAN :
            sounding + speechOrphans < MaxPlays /\ HandlePlayAudio(id, ok)
    \/ \E o \in SpeechOutcomes, p \in PlayOutcomes : SpeechSettles(o, p)
    \/ \E o \in SpeechOutcomes, p \in PlayOutcomes : OrphanSpeechSettles(o, p)
    \/ AudioEnds

CardSpec == FreshInit /\ [][CardNext]_vars

\* a notebook of n items as saveItem builds it: the newest first
RECURSIVE NotebookOf(_)
NotebookOf(n) ==
    IF n = 0 THEN <<>>
    ELSE << [word        |-> <<"w">> \o NumText(n),
             explanation |-> <<"e">>,
             imageUrl    |-> None,
             timestamp   |-> n,
             sourceLang  |-> LANGUAGES[1].name,
             targetLang  |-> LANGUAGES[3].name,
             id          |-> n] >> \o NotebookOf(n - 1)

\* a visit that starts with a stored notebook of up to MaxStoryItems items
StoryInit ==
    /\ lsSettings = None
    /\ lsSaved \in {Some(SavedToStore(NotebookOf(n))) : n \in 0..MaxStoryItems}
    /\ Loaded

\* story weaving over the stored notebook, with deletions in between
StoryNext ==
    \/ Start
    \/ \E m \in {"NOTEBOOK", "FLASHCARDS"} : SetMode(m)
    \/ \E c \in Offered : ChangeNativeLang(c)
    \/ \E ok \in BOOLEAN : HandleWeaveStory(ok)
    \/ \E t \in Stories : StoryResolves(t)
    \/ StoryRejects
    \/ CloseStory
    \/ \E id \in {1, MaxStoryItems} : DeleteItem(id)
    \/ Commit

StorySpec == StoryInit /\ [][StoryNext]_vars

\* a visit that starts with a stored notebook of up to MaxFlashItems items
FlashInit ==
    /\ lsSettings = None
    /\ lsSaved \in {Some(SavedToStore(NotebookOf(n))) : n \in 0..MaxFlashItems}
    /\ Loaded

\* flashcard review of the stored notebook, with the study mode left and
\* entered again and items deleted in between
FlashNext ==
    \/ Start
    \/ \E m \in {"NOTEBOOK", "FLASHCARDS"} : SetMode(m)
    \/ ResetSearch
    \/ Reveal
    \/ Advance
    \/ \E id \in 1..MaxFlashItems : DeleteItem(id)
    \/ Commit

FlashSpec == FlashInit /\ [][FlashNext]_vars

\* a visit that starts with two stored items and nothing stored as settings
ServiceInit ==
    /\ lsSettings = None
    /\ lsSaved = Some(SavedToStore(NotebookOf(2)))
    /\ Loaded

\* the settings dialog together with one request to each of the five
\* operations of the service
ServiceNext ==
    \/ Start
    \/ \E b \in BOOLEAN : SetShowSettings(b)
    \/ \E k \in ApiKeys : SetApiKey(k)
    \/ \E m \in {AI_MODELS[i] : i \in 1..Len(AI_MODELS)} : SetTextModel(m)
    \/ SaveSettings
    \/ SetQuery(<<"q">>)
    \/ clock < 1 /\ HandleSearch(TRUE, "other")
    \/ \E d \in TextData(MaxWords) : TextResolves(d)
    \/ \E u \in ImageUrls : ImageSettles("failed", u)
    \/ SetChatOpen(TRUE)
    \/ SetChatInput(<<"a">>)
    \/ chatSends < 1 /\ HandleChatSubmit(TRUE)
    \/ \E r \in Replies : ChatResolves(r)
    \/ HandlePlayAudio("main", TRUE)
    \/ SpeechSettles("null", "threw")
    \/ SetMode("NOTEBOOK")
    \/ HandleWeaveStory(TRUE)
    \/ \E t \in Stories : StoryResolves(t)

ServiceSpec == ServiceInit /\ [][ServiceNext]_vars

\* ------------------------------------------------------------------ claims
\* the selection in force when the result with this timestamp was requested
RecordsSubmittedPair(r) ==
    /\ r.timestamp \in 1..Len(produced)
    /\ r.sourceLang = produced[r.timestamp].native
    /\ r.targetLang = produced[r.timestamp].target

\* a lookup has just finished, one way or the other
LookupJustFinished == ~lookup.active /\ lastOp.op \in {"lookupDone", "lookupFailed"}

ErrorAlerts == {"generic", "apikey"}

\* C1: every result of a lookup, as the current result and as an item of the
\* notebook, carries the native / target language names that were selected
\* when its lookup was submitted, whatever the selection has become since.
C1_ResultKeepsSubmittedLanguages ==
    /\ currentResult # None => RecordsSubmittedPair(currentResult[1])
    /\ \A i \in 1..Len(savedItems) : RecordsSubmittedPair(savedItems[i])
    /\ \A i \in 1..Len(view) : RecordsSubmittedPair(view[i])

\* C1 witness: a lookup just produced a result although both selections were
\* changed while it ran, and an earlier result sits in the notebook under a
\* selection that differs from its own pair
C1_Witness ==
    /\ lastOp.op = "lookupDone"
    /\ currentResult # None
    /\ currentResult[1].sourceLang # nativeLang.name
    /\ currentResult[1].targetLang # targetLang.name
    /\ \E i \in 1..Len(savedItems) :
          savedItems[i].sourceLang # currentResult[1].sourceLang

\* C2: when the definition request succeeded and the illustration request
\* failed, the lookup ends with a current result that has the definition's
\* fields and no imageUrl, with no alert and with loading false.
C2_DegradedLookupSucceeds ==
    (LookupJustFinished /\ lookup.text = "ok" /\ lookup.imageOutcome = "failed")
    => /\ currentResult # None
       /\ currentResult[1].word = lookup.textData[1].word
       /\ currentResult[1].explanation = lookup.textData[1].explanation
       /\ currentResult[1].imageUrl = None
       /\ alertShown = "none"
       /\ ~loading

\* C2 witness: a lookup whose illustration failed has produced a result
C2_Witness ==
    /\ lastOp.op = "lookupDone"
    /\ lookup.text = "ok" /\ lookup.imageOutcome = "failed"
    /\ currentResult # None /\ currentResult[1].imageUrl = None

\* C3 as claimed: when the definition request failed, the lookup ends with an
\* empty current result, an error alert and loading false.
C3_FailedLookupLeavesResultEmpty ==
    (LookupJustFinished /\ lookup.text = "rejected")
    => /\ currentResult = None
       /\ alertShown \in ErrorAlerts
       /\ ~loading

\* C3 amended: when the definition request failed, the lookup produces no
\* result: it ends with an error alert, loading false and a current result
\* that is empty or is a saved item (a result carrying an id) which the user
\* opened with reviewItem while the lookup was running.
C3_FailedLookupProducesNoResult ==
    (LookupJustFinished /\ lookup.text = "rejected")
    => /\ \/ currentResult = None
          \/ /\ "id" \in DOMAIN currentResult[1]
             /\ currentResult[1].timestamp \in 1..clock
       /\ Len(produced) = clock
       /\ alertShown \in ErrorAlerts
       /\ ~loading

\* C3 witness: the definition request failed while the illustration request
\* was still outstanding, and the user had opened a saved item meanwhile
C3_Witness ==
    /\ LookupJustFinished /\ lookup.text = "rejected"
    /\ lookup.image = "pending"
    /\ currentResult # None

\* ids and headwords of a list of items, in order
IdsOf(items)   == [i \in 1..Len(items) |-> items[i].id]
WordsOf(items) == [i \in 1..Len(items) |-> items[i].word]

\* C4 as claimed: the notebook never holds two items with the same word.
C4_OneItemPerWord ==
    \A i, j \in 1..Len(savedItems) :
        i # j => savedItems[i].word # savedItems[j].word

\* C5: the notebook is most-recent-first: every item was saved after all the
\* items behind it (ids are handed out in the order of the saves), so a save
\* puts its item in front and neither a save nor a deletion reorders the rest.
C5_MostRecentFirst ==
    /\ \A i, j \in 1..Len(savedItems) :
          i < j => savedItems[i].id > savedItems[j].id
    /\ (lastOp.op = "saveItem" /\ effectPending)
          => (savedItems # <<>> /\ savedItems[1].id = nextId)

\* C5 witness: A, B and C were saved in that order into an empty notebook,
\* which now reads C, B, A
C5_Witness ==
    /\ lastOp.op = "saveItem"
    /\ WordsOf(savedItems) = << WordList[3], WordList[2], WordList[1] >>
    /\ IdsOf(savedItems) = << 3, 2, 1 >>

\* C6: deleteItem(id) leaves exactly the items whose id differs from id, in
\* their order: one item fewer when the id is in the notebook, the same
\* notebook when it is not; the component keeps running.
C6_DeleteRemovesExactlyThatItem ==
    [][ lastOp'.op = "deleteItem" =>
          LET id == lastOp'.id
              Keep(it) == it.id # id
              present == \E i \in 1..Len(savedItems) : savedItems[i].id = id
          IN  /\ savedItems' = SelectSeq(savedItems, Keep)
              /\ present => Len(savedItems') = Len(savedItems) - 1
              /\ ~present => savedItems' = savedItems
              /\ ~crashed' ]_vars

\* C6 witness: a deletion of an id that was no longer in the notebook (the
\* second deletion of that row) has left the other items in place
C6_Witness ==
    /\ lastOp.op = "deleteItem"
    /\ \A i \in 1..Len(savedItems) : savedItems[i].id # lastOp.id
    /\ \E i \in 1..Len(view) : view[i].id = lastOp.id
    /\ Len(savedItems) = Len(view) - 1
    /\ savedItems # <<>>

\* C7: once React has processed a change of the notebook (the effect has
\* run), the value stored under 'lingopop_saved' is the serialization of the
\* whole notebook: parsing it gives back the same items in the same order.
C7_StoreHoldsWholeNotebook ==
    (~crashed /\ ~effectPending)
    => /\ lsSaved # None
       /\ lsSaved[1] = StringifyItems(savedItems)
       /\ \E p \in {JSONparse(lsSaved[1])} : p.ok /\ AsItems(p.m) = savedItems

\* C7 witness: three items were saved, one was deleted, and the effect has
\* written the two that remain
C7_Witness ==
    /\ lastOp.op = "commit"
    /\ nextId = 3
    /\ Len(savedItems) = 2
    /\ lsSaved = Some(StringifyItems(savedItems))

\* a stored value that is there and that JSON.parse rejects
Unparsable(ls) == ls # None /\ ls[1] # <<>> /\ ~JSONparse(ls[1]).ok

\* C8 as claimed: when the value under 'lingopop_saved' is absent or does
\* not parse (the stored settings being loadable), the component mounts
\* with an empty notebook.
C8_UnusableNotebookStartsEmpty ==
    (/\ lastOp.op = "mount"
     /\ lsSaved = None \/ lsSaved[1] = <<>> \/ Unparsable(lsSaved)
     /\ ~LoadSettings(lsSettings).threw)
    => (~crashed /\ savedItems = <<>>)

\* C9: after a page reload, the settings the component starts with are the
\* {apiKey, textModel} pair that the latest saveSettings stored.
C9_SettingsRoundTrip ==
    (lastOp.op = "mount" /\ persisted # None)
    => (~crashed /\ settings = persisted[1])

\* C9 witness: a key that needs escaping and the non-default model were
\* saved, and the page was reloaded
C9_Witness ==
    /\ lastOp.op = "mount" /\ restarts > 0
    /\ persisted # None
    /\ persisted[1].apiKey # <<>>
    /\ persisted[1].apiKey[1] \in {DQ, BS}
    /\ persisted[1].textModel = AI_MODELS[2]
    /\ settings = persisted[1]

\* C10 as claimed: when the value under 'lingopop_settings' does not parse,
\* the component mounts with DEFAULT_SETTINGS.
C10_CorruptSettingsFallBack ==
    (lastOp.op = "mount" /\ Unparsable(lsSettings))
    => (~crashed /\ settings = DEFAULT_SETTINGS)

\* the text is empty or holds blanks only
OnlyBlanks(t) == \A i \in 1..Len(t) : t[i] = SP

\* the step submits the search form
SubmitStep ==
    ~loading /\ lastOp'.op \in {"emptySubmit", "handleSearch", "lookupFailed"}

\* C11: in a card whose sends have all succeeded and none of which is
\* outstanding, the transcript holds two entries per send, the user's message
\* followed by the model's reply.
C11_TranscriptOfSuccessfulSends ==
    (CardMounted /\ chatFails = 0 /\ chat.outstanding = 0)
    => /\ Len(chatHistory) = 2 * chatSends
       /\ \A i \in 1..Len(chatHistory) :
             chatHistory[i].role = (IF i % 2 = 1 THEN "user" ELSE "model")

\* C11 witness: two messages were sent and answered
C11_Witness ==
    /\ CardMounted /\ chatFails = 0 /\ chat.outstanding = 0
    /\ chatSends = 2
    /\ Len(chatHistory) = 4

\* C12: the step in which a send fails leaves the transcript equal to the
\* transcript before that send followed by the user's message, and leaves
\* the chat form enabled.
C12_FailedSendKeepsMessageOnly ==
    [][lastOp'.op = "chatFailed"
       => /\ chatHistory' = Append(chatBefore', UserMessage(chat'.message))
          /\ ~chatLoading']_vars

\* C12 witness: a send failed after an earlier one had been answered
C12_Witness ==
    /\ lastOp.op = "chatFailed"
    /\ chatSends = 1
    /\ Len(chatHistory) = 3
    /\ chatHistory[3].role = "user"
    /\ ~chatLoading

\* C13 as claimed: right after a failed send the transcript has odd length,
\* and right after a send that succeeds it has even length.
C13_OddUntilSuccessfulRetry ==
    /\ lastOp.op = "chatFailed" => Len(chatHistory) % 2 = 1
    /\ lastOp.op = "chatReplied" => Len(chatHistory) % 2 = 0

\* C14 as claimed: a lookup that finishes while the current result is a saved
\* item opened with reviewItem after the lookup had started (handleSearch
\* had emptied the result) leaves that result in place.
C14_StaleResponseDiscarded ==
    [][(loading /\ currentResult # None /\ lastOp'.op = "lookupDone")
       => currentResult' = currentResult]_vars

\* C15: a submit of a query that is empty or holds blanks only issues no
\* request and leaves loading, mode and the current result as they were.
C15_EmptySubmitDoesNothing ==
    [][(SubmitStep /\ OnlyBlanks(query))
       => /\ lastOp'.op = "emptySubmit"
          /\ UNCHANGED << loading, mode, currentResult, lookup, callsSinceSave >>]_vars

\* C15 witness: a query of one blank was submitted
C15_Witness ==
    /\ lastOp.op = "emptySubmit"
    /\ query = <<SP>>
    /\ ~lookup.active /\ ~loading

\* C16: a card never has more than one chat request outstanding.
C16_OneChatRequestAtATime == chat.outstanding <= 1

\* C16 witness: a message is outstanding after an earlier one of the same
\* card had been answered and the form had been submitted again
C16_Witness ==
    /\ chat.outstanding = 1
    /\ chatLoading
    /\ chatSends >= 1

\* C17 as claimed: never more than one playback is under way.
C17_PlaybacksNeverOverlap == sounding <= 1

\* C18 as claimed: the step in which a lookup fails opens the settings dialog
\* and shows the API-key message when the failure is a credential failure,
\* and shows the generic message and leaves the dialog alone when it is not.
C18_OnlyCredentialFailureOpensSettings ==
    [][lastOp'.op = "lookupFailed"
       => IF failure' = "credential"
          THEN showSettings' /\ alertShown' = "apikey"
          ELSE alertShown' = "generic" /\ showSettings' = showSettings]_vars

\* C19 as claimed: every request issued since the latest saveSettings carries
\* the apiKey that was saved, and the text requests name the textModel that
\* was saved.
C19_CallsUseSavedSettings ==
    persisted # None
    => \A c \in callsSinceSave :
          /\ c.apiKey = persisted[1].apiKey
          /\ c.service \in {"lookup", "story", "chat"}
                => c.model = persisted[1].textModel

\* C20: the request of a story carries the headwords of the first ten items
\* of the notebook as rendered, in their order, and of all of them when there
\* are fewer than ten.
C20_StoryUsesFirstTenItems ==
    lastOp.op = "weaveStory"
    => /\ storyRequest # None
       /\ storyRequest[1].words =
             JoinWords(SubSeq(view, 1, IF Len(view) < 10 THEN Len(view) ELSE 10))

\* C20 witness: a story was requested over a notebook of twelve items
C20_Witness ==
    /\ lastOp.op = "weaveStory"
    /\ Len(view) = 12
    /\ storyRequest # None
    /\ storyRequest[1].words = JoinWords(SubSeq(view, 1, 10))
    /\ storyRequest[1].words # JoinWords(view)


\* C21: flashcard review starts at index 0 on the front face; over a sequence
\* that the index points into, reveal on the front face shows the back face
\* of the same index, and advance shows the front face of index+1, or of
\* index 0 from the last index, so that the index stays inside the sequence
\* and the review never ends by itself
C21_FlashcardReviewWraps ==
    [][ /\ (~FlashMounted /\ FlashMounted' => index' = 0 /\ faceUp' = "front")
        /\ (lastOp'.op = "reveal" /\ faceUp = "front"
               => index' = index /\ faceUp' = "back")
        /\ (lastOp'.op = "advance" /\ index \in 0..(Len(view) - 1)
               => /\ faceUp' = "front"
                  /\ index' = (IF index = Len(view) - 1 THEN 0 ELSE index + 1)
                  /\ index' \in 0..(Len(view) - 1)) ]_vars

\* three items under review, and an advance from the last one came back to
\* the first
C21_Witness ==
    /\ FlashMounted
    /\ Len(view) = 3
    /\ lastOp.op = "advance"
    /\ index = 0 /\ faceUp = "front"

\* C22: a lookup has its definition request and its illustration request
\* outstanding together from the moment it starts, and a lookup sets the
\* current result only when neither of the two is outstanding any more
C22_FanOutThenJoin ==
    [][ /\ (lastOp'.op = "handleSearch"
               => lookup'.text = "pending" /\ lookup'.image = "pending")
        /\ (lastOp'.op = "lookupDone"
               => /\ lookup'.text # "pending" /\ lookup'.image # "pending"
                  /\ currentResult' # None) ]_vars

\* the definition arrived first and the lookup waited for the illustration
\* before it produced its result
C22_Witness ==
    /\ lastOp.op = "lookupDone"
    /\ currentResult # None
    /\ lookup.text = "ok" /\ lookup.image = "settled"
    /\ lookup.imageOutcome = "inline"
    /\ currentResult[1].imageUrl # None

\* C23: every chat send gives the chat collaborator the two priming turns,
\* then each entry of the transcript as it stood before the send, in order,
\* none missing and none twice, then the new user message once
C23_CollaboratorGetsWholeTranscript ==
    [][ lastOp'.op = "chatSend"
          => /\ Len(chat'.turns) = 2 + Len(chatHistory) + 1
             /\ chat'.turns[1].role = "user"
             /\ Head(chat'.turns[1].parts[1].text) = "System:"
             /\ chat'.turns[2] = [role |-> "model",
                                  parts |-> << [text |-> << "Understood!" >>] >>]
             /\ \A i \in 1..Len(chatHistory) :
                    /\ chat'.turns[2 + i].role = chatHistory[i].role
                    /\ chat'.turns[2 + i].parts = << [text |-> chatHistory[i].text] >>
             /\ chat'.turns[Len(chat'.turns)] =
                    [role |-> "user", parts |-> << [text |-> chatInput] >>] ]_vars

\* the second message of a session is sent after the first was answered:
\* the collaborator is given two priming turns, the first exchange and the
\* second message
C23_Witness ==
    /\ lastOp.op = "chatSend"
    /\ chatSends = 1
    /\ Len(chat.turns) = 5
    /\ chat.turns[3].role = "user" /\ chat.turns[4].role = "model"
    /\ chat.turns[5].parts[1].text = chat.message

\* s is the beginning of t
IsPrefix(s, t) == Len(s) <= Len(t) /\ SubSeq(t, 1, Len(s)) = s

\* C24: while a card stays mounted (one chat session) every step leaves the
\* transcript as it is or adds entries at its end: the earlier transcript is
\* a prefix of the later one
C24_TranscriptAppendOnly ==
    [][ CardMounted /\ CardMounted' => IsPrefix(chatHistory, chatHistory') ]_vars

\* a session whose transcript grew by an unanswered message, then by a
\* message and its reply
C24_Witness ==
    /\ CardMounted
    /\ lastOp.op = "chatReplied"
    /\ chatFails = 1 /\ chatSends = 1
    /\ Len(chatHistory) = 3
    /\ chatHistory[1].role = "user" /\ chatHistory[3].role = "model"

\* a lookup has been started and has neither produced its result nor
\* failed: its definition request is outstanding, or the definition has
\* arrived and its illustration request is outstanding
LookupUnfinished ==
    \/ lookup.text = "pending"
    \/ lookup.text = "ok" /\ lookup.image = "pending"

\* C25: loading is set exactly while a lookup started by handleSearch is
\* unfinished; it is clear as soon as both requests have completed or the
\* definition request has failed
C25_LoadingIffLookupUnfinished ==
    /\ loading <=> LookupUnfinished
    /\ loading <=> lookup.active

\* the definition request failed while the illustration was outstanding, and
\* the flag is clear again
C25_Witness ==
    /\ lastOp.op = "lookupFailed"
    /\ lookup.text = "rejected" /\ lookup.image = "pending"
    /\ ~loading

====
